---- MODULE Spec2Model ----
(***************************************************************************)
(* QR-authentication session lifecycle of auto-dm: the session table       *)
(* (QRManager), the pairing bridge (generateQRCode), the sender directory  *)
(* (Database), the credential store (UserStoreManager), the connection     *)
(* supervisor (ClientManager.checkConnections) and the /register, /qr and  *)
(* /send request handlers.                                                 *)
(*                                                                         *)
(* Every goroutine is a process with a position: request handlers in       *)
(* `tasks`, one bridge per session in `bridge`, the cleanup goroutine in   *)
(* `sweep`.  A step is one access to shared state, or one lock acquisition *)
(* together with the straight-line code that follows it up to the next     *)
(* blocking call.  sync.RWMutex is not reentrant: Lock waits for every     *)
(* holder, the caller included.                                            *)
(*                                                                         *)
(* Spec serves the requests of one phone one at a time, concurrently with  *)
(* the bridges, the cleanup, the supervisor, the clock and restarts.       *)
(* SpecRace runs NumTasks registrations of NumPhones phones concurrently.  *)
(* SpecPair serves NumPhones phones one request at a time; SpecCollide is  *)
(* the same with session tokens that may repeat.                           *)
(*                                                                         *)
(* CreateQRCodeSessionWithContext and GetQRCodeWithContext are called by   *)
(* the handlers and are not among the source files: the handlers are       *)
(* modelled as calling CreateQRCodeSession and GetQRCode.  Reads of the    *)
(* local SQLite store are taken not to fail; writes may fail in the        *)
(* secondary-store sync that follows them.  No code of the server reads    *)
(* the secondary store back, so its content is followed in SpecSync only,  *)
(* which runs the periodic resync over any content of the two stores.      *)
(* The whatsapp_messages table is followed in SpecMsg only, which runs the *)
(* message handlers of the senders that startup has authenticated.         *)
(***************************************************************************)
EXTENDS Integers, FiniteSets, Sequences, TLC

\* ---------------------------------------------------------------- bounds
NumPhones == 2
MaxSessions == 2
NumTasks == 2
MaxTicks == 1
MaxRestarts == 1
MaxSyncTicks == 2
MaxStored == 2

\* ------------------------------------------------------ program constants
QRExpiryMinutes == 10
TickMinutes == 1

SessionIds == 1..MaxSessions
Tokens == SessionIds
ClientIds == 1..(MaxSessions + NumPhones)
QRPayloads == {"qr-a", "qr-b"}
DeviceJID == "jid"

NoTime == -1
NoSid == 0
NoClient == 0

VARIABLES
  now,            \* time.Now(), in minutes
  restarts,       \* process restarts so far
  senders,        \* senders table of the SQLite store: phone -> row
  sessions,       \* QRManager.sessions: token -> session
  heap,           \* the QRCodeSession objects
  nextSid,        \* next object to allocate
  mu,             \* QRManager.mu
  smu,            \* QRCodeSession.mu of every session
  bridge,         \* position of every generateQRCode goroutine
  userClients,    \* UserStoreManager.userClients: phone -> client
  clients,        \* the whatsmeow clients
  tasks,          \* position and locals of every request goroutine
  sweep,          \* position and locals of the cleanup goroutine
  mssql,          \* senders table of the secondary (MSSQL) store: phone -> row
  event,          \* the events.Message a client is dispatching to its handler
  messages        \* whatsapp_messages table of the secondary store, by ID

vars == <<now, restarts, senders, sessions, heap, nextSid, mu, smu, bridge,
          userClients, clients, tasks, sweep, mssql, event, messages>>

\* the phones of the directory and the request goroutines of the server
Phones == DOMAIN senders
Tasks == DOMAIN tasks

\* ------------------------------------------------------------- directory
NoRow == [status |-> "none", deviceId |-> "", authenticatedAt |-> NoTime,
          invalidatedAt |-> NoTime]

SenderExists(phone) == senders[phone].status # "none"

NewRow == [status |-> "pending", deviceId |-> "", authenticatedAt |-> NoTime,
           invalidatedAt |-> NoTime]

\* UPDATE senders SET status = ? [, <status>_at = CURRENT_TIMESTAMP] WHERE phone = ?
UpdateSenderStatus(dir, phone, status, t) ==
  IF dir[phone].status = "none" THEN dir
  ELSE [dir EXCEPT ![phone] =
          CASE status = "authenticated" ->
                 [@ EXCEPT !.status = status, !.authenticatedAt = t]
            [] status = "invalidated" ->
                 [@ EXCEPT !.status = status, !.invalidatedAt = t]
            [] OTHER -> [@ EXCEPT !.status = status]]

\* variant: the device identifier is not persisted
KeepDeviceID(dir, phone, deviceID) == dir

\* UPDATE senders SET device_id = ? WHERE phone = ?
UpdateSenderDeviceID(dir, phone, deviceID) ==
  IF dir[phone].status = "none" THEN dir
  ELSE [dir EXCEPT ![phone].deviceId = deviceID]

\* ------------------------------------------------------------- sessions
NoSession == [phone |-> 0, token |-> 0, qr |-> "", expiresAt |-> NoTime,
              status |-> "none", client |-> NoClient]

NoHolder == <<"none", 0>>
TaskId(t) == <<"task", t>>
BridgeId(s) == <<"bridge", s>>
SweepId == <<"sweep", 0>>

FreeLock == [w |-> NoHolder, r |-> {}]

IdleTask == [pc |-> "idle", op |-> "", phone |-> 0, tok |-> 0, sid |-> NoSid,
             code |-> 0, err |-> "", status |-> "", qr |-> "",
             sent |-> FALSE, stored |-> FALSE]

IdleSweep == [pc |-> "idle", now |-> NoTime, tok |-> 0, sid |-> NoSid]

\* no event is being dispatched
NoEvent == [to |-> 0, isFromMe |-> FALSE, chat |-> 0, sender |-> 0, id |-> 0]

NoBridge == [pc |-> "none", arg |-> ""]

\* now.After(session.ExpiresAt)
After(t, expiresAt) == t > expiresAt

\* The calls of updateSessionStatus(session, status) that have not returned:
\* the caller, its session and its status argument.
BridgeCalls == {s \in SessionIds : bridge[s].pc = "update"}
TaskCalls == {t \in Tasks : tasks[t].pc = "get_expire"}
PendingCalls ==
  {BridgeId(s) : s \in BridgeCalls} \cup {TaskId(t) : t \in TaskCalls}
    \cup (IF sweep.pc = "update" THEN {SweepId} ELSE {})

CallSid(c) ==
  CASE c[1] = "bridge" -> c[2]
    [] c[1] = "task" -> tasks[c[2]].sid
    [] OTHER -> sweep.sid

CallArg(c) == IF c[1] = "bridge" THEN bridge[c[2]].arg ELSE "expired"

\* the goroutines blocked in session.mu.Lock of session s
WritersWaiting(s) == {c \in PendingCalls : CallSid(c) = s}

\* session.mu.Lock() returns: no writer and no reader holds the mutex
CanLock(s, caller) == smu[s].w = NoHolder /\ smu[s].r = {}

\* session.mu.RLock() returns: no writer holds it and none waits for it
CanRLock(s) == smu[s].w = NoHolder /\ WritersWaiting(s) = {}

\* qm.mu is held across steps by the cleanup goroutine only
TableFree == mu = NoHolder

TypeOK ==
  /\ now \in 0..(MaxTicks * (QRExpiryMinutes + 1))
  /\ restarts \in 0..MaxRestarts
  /\ sessions \in [Tokens -> SessionIds \cup {NoSid}]
  /\ nextSid \in 1..(MaxSessions + 1)
  /\ mu \in {NoHolder, SweepId}
  /\ userClients \in [Phones -> ClientIds \cup {NoClient}]
  /\ Phones \subseteq 1..NumPhones
  /\ Tasks \subseteq 1..NumTasks

\* main on a fresh install (empty stores, empty table), serving the phones
\* `phones` with the request goroutines `workers`
Start(phones, workers) ==
  /\ now = 0
  /\ restarts = 0
  /\ senders = [p \in phones |-> NoRow]
  /\ sessions = [k \in Tokens |-> NoSid]
  /\ heap = [s \in SessionIds |-> NoSession]
  /\ nextSid = 1
  /\ mu = NoHolder
  /\ smu = [s \in SessionIds |-> FreeLock]
  /\ bridge = [s \in SessionIds |-> NoBridge]
  /\ userClients = [p \in phones |-> NoClient]
  /\ clients = [c \in ClientIds |-> [connected |-> FALSE]]
  /\ tasks = [t \in workers |-> IdleTask]
  /\ sweep = IdleSweep
  /\ mssql = [p \in phones |-> NoRow]
  /\ event = NoEvent
  /\ messages = <<>>

\* requests served one at a time
Init == Start({1}, {1})

Done(t, code, err) ==
  [tasks[t] EXCEPT !.pc = "done", !.code = code, !.err = err]


\* ------------------------------------------------- POST /register (create)
\* Registrations that have passed the precondition check and have not yet
\* allocated their client and session objects.
Registering ==
  {t \in Tasks : tasks[t].pc \in {"reg_reset", "reg_evict", "reg_create", "reg_client"}}

\* variant: no status refuses a registration
NeverRefused(row) == FALSE

\* sender.Status == "authenticated": the registration is refused
AlreadyAuthenticated(row) == row.status = "authenticated"

\* CreateQRCodeSession, lines 199-208: SenderExists, GetSender, the status check
RegisterCheck(t, p) ==
  /\ tasks[t].pc = "idle"
  /\ nextSid + Cardinality(Registering) <= MaxSessions
  /\ tasks' = [tasks EXCEPT ![t] =
       IF ~SenderExists(p)
       THEN [IdleTask EXCEPT !.pc = "reg_create", !.op = "register", !.phone = p]
       ELSE IF AlreadyAuthenticated(senders[p])
       THEN [IdleTask EXCEPT !.pc = "done", !.op = "register", !.phone = p,
                             !.code = 409, !.err = "AlreadyAuthenticated"]
       ELSE [IdleTask EXCEPT !.pc = "reg_reset", !.op = "register", !.phone = p]]
  /\ UNCHANGED <<now, restarts, senders, sessions, heap, nextSid, mu, smu, bridge,
                 userClients, clients, sweep, mssql, event, messages>>

\* variant: the re-registration replaces the row by a new one
ReplaceRow(dir, phone, t) == [dir EXCEPT ![phone] = NewRow]

\* the row a re-registration leaves: the existing row with status pending
ResetRow(dir, phone, t) == UpdateSenderStatus(dir, phone, "pending", t)

\* CreateQRCodeSession, lines 210-214: UpdateSenderStatus(phone, "pending");
\* its error (the secondary-store sync failed) fails the registration
RegisterReset(t) ==
  /\ tasks[t].pc = "reg_reset"
  /\ senders' = ResetRow(senders, tasks[t].phone, now)
  /\ \E syncOk \in BOOLEAN :
       tasks' = [tasks EXCEPT ![t] =
         IF syncOk THEN [@ EXCEPT !.pc = "reg_evict"]
         ELSE Done(t, 500, "UpstreamFailure")]
  /\ UNCHANGED <<now, restarts, sessions, heap, nextSid, mu, smu, bridge,
                 userClients, clients, sweep, mssql, event, messages>>

\* removeSessionsForPhone: the table without the sessions of the phone
removeSessionsForPhone(table, phone) ==
  [k \in Tokens |->
     IF table[k] # NoSid /\ heap[table[k]].phone = phone THEN NoSid ELSE table[k]]

\* CreateQRCodeSession, line 217, under qm.mu.Lock
RegisterEvict(t) ==
  /\ tasks[t].pc = "reg_evict"
  /\ TableFree
  /\ sessions' = removeSessionsForPhone(sessions, tasks[t].phone)
  /\ tasks' = [tasks EXCEPT ![t].pc = "reg_client"]
  /\ UNCHANGED <<now, restarts, senders, heap, nextSid, mu, smu, bridge,
                 userClients, clients, sweep, mssql, event, messages>>

\* CreateQRCodeSession, lines 219-222: CreateSender; the INSERT fails on the
\* primary key when a concurrent registration created the row first
RegisterCreateSender(t) ==
  /\ tasks[t].pc = "reg_create"
  /\ \E syncOk \in BOOLEAN :
       /\ senders' = IF SenderExists(tasks[t].phone) THEN senders
                     ELSE [senders EXCEPT ![tasks[t].phone] = NewRow]
       /\ tasks' = [tasks EXCEPT ![t] =
            IF ~SenderExists(tasks[t].phone) /\ syncOk
            THEN [@ EXCEPT !.pc = "reg_client"]
            ELSE Done(t, 500, "UpstreamFailure")]
  /\ UNCHANGED <<now, restarts, sessions, heap, nextSid, mu, smu, bridge,
                 userClients, clients, sweep, mssql, event, messages>>

NewClient == [connected |-> FALSE]

\* CreateQRCodeSession, lines 225-235: generateToken, then CreateUserStore,
\* which stores the new client under the phone
RegisterClient(t) ==
  /\ tasks[t].pc = "reg_client"
  /\ \E outcome \in {"ok", "token_error", "store_error"} :
       IF outcome = "ok"
       THEN /\ userClients' = [userClients EXCEPT ![tasks[t].phone] = nextSid]
            /\ clients' = [clients EXCEPT ![nextSid] = NewClient]
            /\ nextSid' = nextSid + 1
            /\ tasks' = [tasks EXCEPT ![t].pc = "reg_insert", ![t].sid = nextSid]
       ELSE /\ tasks' = [tasks EXCEPT ![t] = Done(t, 500, "UpstreamFailure")]
            /\ UNCHANGED <<userClients, clients, nextSid>>
  /\ UNCHANGED <<now, restarts, senders, sessions, heap, mu, smu, bridge,
                 sweep, mssql, event, messages>>

\* generateToken: 16 random bytes; a token never repeats (the n-th session
\* object gets the n-th token)
generateToken(sid) == sid

\* the session object of lines 238-244
NewSession(phone, token, client, t) ==
  [phone |-> phone, token |-> token, qr |-> "",
   expiresAt |-> t + QRExpiryMinutes, status |-> "pending", client |-> client]

\* CreateQRCodeSession, lines 237-254: the session is stored under qm.mu.Lock,
\* the bridge goroutine is started and the session returned
StoreSession(t, token) ==
  /\ tasks[t].pc = "reg_insert"
  /\ TableFree
  /\ LET sid == tasks[t].sid
     IN /\ heap' = [heap EXCEPT ![sid] = NewSession(tasks[t].phone, token, sid, now)]
        /\ sessions' = [sessions EXCEPT ![token] = sid]
        /\ bridge' = [bridge EXCEPT ![sid] = [pc |-> "start", arg |-> ""]]
        /\ tasks' = [tasks EXCEPT ![t] =
             [Done(t, 200, "") EXCEPT !.tok = token, !.status = "pending"]]
  /\ UNCHANGED <<now, restarts, senders, nextSid, mu, smu,
                 userClients, clients, sweep, mssql, event, messages>>

\* the registration stores its session under a token that never repeats
RegisterInsert(t) == StoreSession(t, generateToken(tasks[t].sid))

\* the registration stores its session under any 16 random bytes: the token
\* may be one that is in the table already
RegisterInsertRandom(t) == \E token \in Tokens : StoreSession(t, token)

\* variant: the end of a request stops the bridge of its session
FinishStopsBridge(t) ==
  /\ tasks[t].pc = "done"
  /\ tasks' = [tasks EXCEPT ![t] = IdleTask]
  /\ bridge' = [s \in SessionIds |->
       IF bridge[s].pc \in {"start", "loop"} /\ heap[s].token = tasks[t].tok
       THEN [pc |-> "done", arg |-> ""]
       ELSE bridge[s]]
  /\ UNCHANGED <<now, restarts, senders, sessions, heap, nextSid, mu, smu,
                 userClients, clients, sweep, mssql, event, messages>>

\* the response is written and the request goroutine ends
Finish(t) ==
  /\ tasks[t].pc = "done"
  /\ tasks' = [tasks EXCEPT ![t] = IdleTask]
  /\ UNCHANGED <<now, restarts, senders, sessions, heap, nextSid, mu, smu, bridge,
                 userClients, clients, sweep, mssql, event, messages>>


\* ------------------------------------------------------- GET /qr/{token}
\* GetQRCode, lines 321-329: the table lookup under qm.mu.RLock
GetLookup(t, tok) ==
  /\ tasks[t].pc = "idle"
  /\ TableFree
  /\ tasks' = [tasks EXCEPT ![t] =
       IF sessions[tok] = NoSid
       THEN [IdleTask EXCEPT !.pc = "done", !.op = "get", !.tok = tok,
                             !.code = 404, !.err = "NotFound"]
       ELSE [IdleTask EXCEPT !.pc = "get_rlock", !.op = "get", !.tok = tok,
                             !.sid = sessions[tok]]]
  /\ UNCHANGED <<now, restarts, senders, sessions, heap, nextSid, mu, smu, bridge,
                 userClients, clients, sweep, mssql, event, messages>>

\* GetQRCode, lines 334-348: session.mu.RLock, the expiry check.  A session
\* that is not expired is returned and the deferred RUnlock runs; an expired
\* one is marked and updateSessionStatus is called with the read lock held.
GetQRCode(t) ==
  /\ tasks[t].pc = "get_rlock"
  /\ CanRLock(tasks[t].sid)
  /\ LET sid == tasks[t].sid IN
       IF After(now, heap[sid].expiresAt)
       THEN /\ smu' = [smu EXCEPT ![sid].r = @ \cup {TaskId(t)}]
            /\ heap' = [heap EXCEPT ![sid].status = "expired"]
            /\ tasks' = [tasks EXCEPT ![t].pc = "get_expire"]
       ELSE /\ tasks' = [tasks EXCEPT ![t].pc = "get_respond"]
            /\ UNCHANGED <<smu, heap>>
  /\ UNCHANGED <<now, restarts, senders, sessions, nextSid, mu, bridge,
                 userClients, clients, sweep, mssql, event, messages>>

\* HandleGetQRCode, lines 200-253: the handler reads Status and QRCode of the
\* returned session and answers 200
HandleGetQRCode(t) ==
  /\ tasks[t].pc = "get_respond"
  /\ LET session == heap[tasks[t].sid] IN
       tasks' = [tasks EXCEPT ![t] =
         [Done(t, 200, "") EXCEPT
            !.status = session.status,
            !.qr = IF session.status = "authenticated" THEN "" ELSE session.qr]]
  /\ UNCHANGED <<now, restarts, senders, sessions, heap, nextSid, mu, smu, bridge,
                 userClients, clients, sweep, mssql, event, messages>>

\* HandleGetQRCode, lines 160-169: the request context is cancelled while
\* the get is in progress: GetQRCodeWithContext returns the context's error
\* and the handler answers 408.  The wrapper is not among the source files:
\* by the specification it returns promptly and leaves no partial state.
HandleGetCancelled(t) ==
  /\ tasks[t].pc \in {"get_rlock", "get_respond"}
  /\ tasks' = [tasks EXCEPT ![t] = Done(t, 408, "Cancelled")]
  /\ UNCHANGED <<now, restarts, senders, sessions, heap, nextSid, mu, smu, bridge,
                 userClients, clients, sweep, mssql, event, messages>>

\* ------------------------------------------------------ updateSessionStatus
\* the tokens of the table whose session is expired at time t
Expired(table, t) ==
  {k \in Tokens : table[k] # NoSid /\ After(t, heap[table[k]].expiresAt)}

\* delete(qm.sessions, token)
Deleted(token) == [sessions EXCEPT ![token] = NoSid]

\* every hold of goroutine c on the lock is released
ReleaseAll(lock, c) ==
  [w |-> IF lock.w = c THEN NoHolder ELSE lock.w, r |-> lock.r \ {c}]

\* updateSessionStatus, lines 306-315: session.mu.Lock, Status = status,
\* Unlock, UpdateSenderStatus(session.Phone, status).  Then the caller goes
\* on: the bridge unlocks and returns, GetQRCode returns the Expired error
\* (its deferred RUnlock runs), the cleanup deletes the session from the table
\* and goes on to the next expired session of its range, or unlocks qm.mu.
updateSessionStatus(c) ==
  /\ c \in PendingCalls
  /\ CanLock(CallSid(c), c)
  /\ LET sid == CallSid(c) IN
       /\ senders' = UpdateSenderStatus(senders, heap[sid].phone, CallArg(c), now)
       /\ smu' = [smu EXCEPT ![sid] = ReleaseAll(@, c)]
       /\ bridge' = IF c[1] = "bridge"
                    THEN [bridge EXCEPT ![sid] = [pc |-> "done", arg |-> ""]]
                    ELSE bridge
       /\ tasks' = IF c[1] = "task"
                   THEN [tasks EXCEPT ![c[2]] = Done(c[2], 410, "Expired")]
                   ELSE tasks
       /\ sessions' = IF c = SweepId THEN Deleted(sweep.tok) ELSE sessions
       /\ IF c = SweepId /\ Expired(Deleted(sweep.tok), sweep.now) = {}
          THEN /\ mu' = NoHolder
               /\ sweep' = IdleSweep
               /\ heap' = [heap EXCEPT ![sid].status = CallArg(c)]
          ELSE IF c = SweepId
          THEN \E k \in Expired(Deleted(sweep.tok), sweep.now) :
               /\ mu' = mu
               /\ sweep' = [sweep EXCEPT !.tok = k, !.sid = sessions[k]]
               /\ heap' = [heap EXCEPT ![sid].status = CallArg(c),
                                       ![sessions[k]].status = "expired"]
          ELSE /\ heap' = [heap EXCEPT ![sid].status = CallArg(c)]
               /\ UNCHANGED <<mu, sweep>>
  /\ UNCHANGED <<now, restarts, nextSid, userClients, clients, mssql, event, messages>>

\* --------------------------------------------- generateQRCode (the bridge)
\* generateQRCode, lines 262-269: GetQRChannel and Connect; a Connect error
\* calls updateSessionStatus(session, "expired")
BridgeConnect(s) ==
  /\ bridge[s].pc = "start"
  /\ \E ok \in BOOLEAN :
       /\ bridge' = [bridge EXCEPT ![s] =
            IF ok THEN [pc |-> "loop", arg |-> ""]
            ELSE [pc |-> "update", arg |-> "expired"]]
       /\ clients' = IF ok THEN [clients EXCEPT ![heap[s].client].connected = TRUE]
                     ELSE clients
  /\ UNCHANGED <<now, restarts, senders, sessions, heap, nextSid, mu, smu,
                 userClients, tasks, sweep, mssql, event, messages>>

\* variant: a code event also renews the session
RenewingCode(session, payload) ==
  [session EXCEPT !.qr = payload, !.status = "pending",
                  !.expiresAt = now + QRExpiryMinutes]

\* generateQRCode, lines 276-278: what a "code" event writes to the session
CodeEvent(session, payload) ==
  [session EXCEPT !.qr = payload, !.status = "pending"]

\* generateQRCode, lines 273-279 and 301: a "code" event
BridgeCode(s, payload) ==
  /\ bridge[s].pc = "loop"
  /\ CanLock(s, BridgeId(s))
  /\ heap' = [heap EXCEPT ![s] = CodeEvent(@, payload)]
  /\ UNCHANGED <<now, restarts, senders, sessions, nextSid, mu, smu, bridge,
                 userClients, clients, tasks, sweep, mssql, event, messages>>

\* generateQRCode, lines 273 and 281-284: a "timeout" event; the session
\* lock is held when updateSessionStatus is called
BridgeTimeout(s) ==
  /\ bridge[s].pc = "loop"
  /\ CanLock(s, BridgeId(s))
  /\ smu' = [smu EXCEPT ![s].w = BridgeId(s)]
  /\ heap' = [heap EXCEPT ![s].status = "expired"]
  /\ bridge' = [bridge EXCEPT ![s] = [pc |-> "update", arg |-> "expired"]]
  /\ UNCHANGED <<now, restarts, senders, sessions, nextSid, mu,
                 userClients, clients, tasks, sweep, mssql, event, messages>>

\* generateQRCode, lines 273 and 288-296: a "success" event: the pairing has
\* given the client its device identity (Store.ID), which is written to the
\* directory; the session lock is held when updateSessionStatus is called
BridgeSuccess(s) ==
  /\ bridge[s].pc = "loop"
  /\ CanLock(s, BridgeId(s))
  /\ smu' = [smu EXCEPT ![s].w = BridgeId(s)]
  /\ heap' = [heap EXCEPT ![s].status = "authenticated"]
  /\ senders' = UpdateSenderDeviceID(senders, heap[s].phone, DeviceJID)
  /\ bridge' = [bridge EXCEPT ![s] = [pc |-> "update", arg |-> "authenticated"]]
  /\ UNCHANGED <<now, restarts, sessions, nextSid, mu,
                 userClients, clients, tasks, sweep, mssql, event, messages>>

\* ------------------------------------------------- CleanupExpiredSessions
\* CleanupExpiredSessions, lines 353-360: qm.mu.Lock (held to the end), now;
\* the first expired session of the range is marked and updateSessionStatus
\* called; with none the deferred qm.mu.Unlock runs at once
CleanupExpiredSessions ==
  /\ sweep.pc = "idle"
  /\ TableFree
  /\ IF Expired(sessions, now) = {}
     THEN UNCHANGED <<mu, sweep, heap>>
     ELSE \E k \in Expired(sessions, now) :
          /\ mu' = SweepId
          /\ heap' = [heap EXCEPT ![sessions[k]].status = "expired"]
          /\ sweep' = [pc |-> "update", now |-> now, tok |-> k, sid |-> sessions[k]]
  /\ UNCHANGED <<now, restarts, senders, sessions, nextSid, smu, bridge,
                 userClients, clients, tasks, mssql, event, messages>>

\* ------------------------------------------------------------- POST /send
\* UserStoreManager.GetUserClient and client.IsConnected
GetUserClient(phone) == userClients[phone]
IsConnected(c) == clients[c].connected

\* variant: the send checks always pass
NoSendCheck(phone) == ""

\* the error the send checks give for a sender, "" when they pass
SendCheckError(phone) ==
  IF GetUserClient(phone) = NoClient THEN "NotRegistered"
  ELSE IF ~IsConnected(GetUserClient(phone)) THEN "NotConnected"
  ELSE ""

\* HandleSendMessage, lines 353-373: the sender must be registered and
\* connected, else 400
HandleSendMessage(t, p) ==
  /\ tasks[t].pc = "idle"
  /\ tasks' = [tasks EXCEPT ![t] =
       IF SendCheckError(p) # ""
       THEN [IdleTask EXCEPT !.pc = "done", !.op = "send", !.phone = p,
                             !.code = 400, !.err = SendCheckError(p)]
       ELSE [IdleTask EXCEPT !.pc = "send_msg", !.op = "send", !.phone = p]]
  /\ UNCHANGED <<now, restarts, senders, sessions, heap, nextSid, mu, smu, bridge,
                 userClients, clients, sweep, mssql, event, messages>>

\* variant: a failure to record the sent message fails the send
StrictSent(t, storeOk) ==
  [Done(t, IF storeOk THEN 200 ELSE 500, IF storeOk THEN "" ELSE "UpstreamFailure")
     EXCEPT !.sent = TRUE, !.stored = storeOk]

\* sendMessageWithContext, lines 422-440: the message has been sent; the
\* result of StoreMessage is logged and nil is returned
Sent(t, storeOk) ==
  [Done(t, 200, "") EXCEPT !.sent = TRUE, !.stored = storeOk]

\* sendMessageWithContext, lines 407-441, and ClientManager.SendMessage:
\* the checks again, the protocol-level send (sent), then StoreMessage
\* (stored), whose failure is logged only
SendMessage(t) ==
  /\ tasks[t].pc = "send_msg"
  /\ \E sendOk \in BOOLEAN, storeOk \in BOOLEAN :
       LET p == tasks[t].phone IN
       tasks' = [tasks EXCEPT ![t] =
         IF SendCheckError(p) # "" THEN Done(t, 500, SendCheckError(p))
         ELSE IF ~sendOk THEN Done(t, 500, "UpstreamFailure")
         ELSE Sent(t, storeOk)]
  /\ UNCHANGED <<now, restarts, senders, sessions, heap, nextSid, mu, smu, bridge,
                 userClients, clients, sweep, mssql, event, messages>>

\* ---------------------------------------------------- connection supervisor
\* variant: the tick finds every client connected
NoneDisconnected == {}

\* the senders a tick finds disconnected: it ranges over userClients
Disconnected ==
  {p \in Phones : GetUserClient(p) # NoClient /\ ~IsConnected(GetUserClient(p))}

\* variant: the tick also promotes the senders it finds connected
PromotingCheck(dir, t) ==
  [p \in Phones |->
     IF GetUserClient(p) = NoClient THEN dir[p]
     ELSE IF p \in Disconnected THEN UpdateSenderStatus(dir, p, "invalidated", t)[p]
     ELSE UpdateSenderStatus(dir, p, "authenticated", t)[p]]

\* the directory after checkConnections at time t
CheckConnections(dir, t) ==
  [p \in Phones |->
     IF p \in Disconnected THEN UpdateSenderStatus(dir, p, "invalidated", t)[p]
     ELSE dir[p]]

\* ClientManager.checkConnections, one tick of MonitorConnections
checkConnections ==
  /\ senders' = CheckConnections(senders, now)
  /\ UNCHANGED <<now, restarts, sessions, heap, nextSid, mu, smu, bridge,
                 userClients, clients, tasks, sweep, mssql, event, messages>>

\* ------------------------------------------------------------ environment
\* the connection of a client is lost (network loss, remote logout)
ClientDisconnect(c) ==
  /\ clients[c].connected
  /\ clients' = [clients EXCEPT ![c].connected = FALSE]
  /\ UNCHANGED <<now, restarts, senders, sessions, heap, nextSid, mu, smu, bridge,
                 userClients, tasks, sweep, mssql, event, messages>>

\* time passes: to just after the expiry of the sessions created so far
AdvanceClock ==
  /\ now < MaxTicks * (QRExpiryMinutes + 1)
  /\ now' = now + QRExpiryMinutes + 1
  /\ UNCHANGED <<restarts, senders, sessions, heap, nextSid, mu, smu, bridge,
                 userClients, clients, tasks, sweep, mssql, event, messages>>

\* ------------------------------------------------------- restart, startup
LoadedClient(p) == MaxSessions + p

\* variant: the reload attempts the authenticated senders only
LoadAuthenticatedOnly(dir, outcome, t) ==
  [p \in Phones |->
     IF dir[p].status # "authenticated" \/ dir[p].deviceId = "" THEN dir[p]
     ELSE IF outcome[p] = "connected"
     THEN UpdateSenderStatus(dir, p, "authenticated", t)[p]
     ELSE UpdateSenderStatus(dir, p, "invalidated", t)[p]]

\* LoadAllSenders: a sender with a device identifier is loaded and connected;
\* it becomes authenticated when the client is connected and invalidated
\* when the load fails or the client is not connected
LoadAllSenders(dir, outcome, t) ==
  [p \in Phones |->
     IF dir[p].status = "none" \/ dir[p].deviceId = "" THEN dir[p]
     ELSE IF outcome[p] = "connected"
     THEN UpdateSenderStatus(dir, p, "authenticated", t)[p]
     ELSE UpdateSenderStatus(dir, p, "invalidated", t)[p]]

\* the process stops and starts again (main): the stores on disk are kept,
\* everything in memory is new, and LoadAllSenders runs before the server
Restart ==
  /\ restarts < MaxRestarts
  /\ restarts' = restarts + 1
  /\ \E outcome \in [Phones -> {"error", "connected", "disconnected"}] :
       LET load == {p \in Phones : senders[p].status # "none" /\ senders[p].deviceId # ""
                                   /\ outcome[p] # "error"}
       IN /\ senders' = LoadAllSenders(senders, outcome, now)
          /\ userClients' = [p \in Phones |->
               IF p \in load THEN LoadedClient(p) ELSE NoClient]
          /\ clients' = [c \in ClientIds |->
               IF \E p \in load : c = LoadedClient(p) /\ outcome[p] = "connected"
               THEN [connected |-> TRUE]
               ELSE NewClient]
  /\ sessions' = [k \in Tokens |-> NoSid]
  /\ heap' = [s \in SessionIds |-> NoSession]
  /\ mu' = NoHolder
  /\ smu' = [s \in SessionIds |-> FreeLock]
  /\ bridge' = [s \in SessionIds |-> NoBridge]
  /\ tasks' = [t \in Tasks |-> IdleTask]
  /\ sweep' = IdleSweep
  /\ UNCHANGED <<now, nextSid, mssql, event, messages>>

\* ------------------------------------------------------------------ Next
Next ==
  \/ \E t \in Tasks, p \in Phones : RegisterCheck(t, p)
  \/ \E t \in Tasks : RegisterReset(t)
  \/ \E t \in Tasks : RegisterEvict(t)
  \/ \E t \in Tasks : RegisterCreateSender(t)
  \/ \E t \in Tasks : RegisterClient(t)
  \/ \E t \in Tasks : RegisterInsert(t)
  \/ \E t \in Tasks, k \in Tokens : GetLookup(t, k)
  \/ \E t \in Tasks : GetQRCode(t)
  \/ \E t \in Tasks : HandleGetQRCode(t)
  \/ \E t \in Tasks : HandleGetCancelled(t)
  \/ \E t \in Tasks, p \in Phones : HandleSendMessage(t, p)
  \/ \E t \in Tasks : SendMessage(t)
  \/ \E t \in Tasks : Finish(t)
  \/ \E c \in PendingCalls : updateSessionStatus(c)
  \/ \E s \in SessionIds : BridgeConnect(s)
  \/ \E s \in SessionIds, payload \in QRPayloads : BridgeCode(s, payload)
  \/ \E s \in SessionIds : BridgeTimeout(s)
  \/ \E s \in SessionIds : BridgeSuccess(s)
  \/ CleanupExpiredSessions
  \/ checkConnections
  \/ \E c \in ClientIds : ClientDisconnect(c)
  \/ AdvanceClock
  \/ Restart

Spec == Init /\ [][Next]_vars

\* ------------------------------------------------ concurrent registrations
\* NumTasks request goroutines register NumPhones phones at the same time
InitRace == Start(1..NumPhones, 1..NumTasks)

NextRace ==
  \/ \E t \in Tasks, p \in Phones : RegisterCheck(t, p)
  \/ \E t \in Tasks : RegisterReset(t)
  \/ \E t \in Tasks : RegisterEvict(t)
  \/ \E t \in Tasks : RegisterCreateSender(t)
  \/ \E t \in Tasks : RegisterClient(t)
  \/ \E t \in Tasks : RegisterInsert(t)
  \/ \E t \in Tasks : Finish(t)
  \/ \E c \in PendingCalls : updateSessionStatus(c)
  \/ CleanupExpiredSessions
  \/ AdvanceClock
  \/ \E s \in SessionIds : BridgeConnect(s)
  \/ \E s \in SessionIds, payload \in QRPayloads : BridgeCode(s, payload)
  \/ \E s \in SessionIds : BridgeTimeout(s)
  \/ \E s \in SessionIds : BridgeSuccess(s)

SpecRace == InitRace /\ [][NextRace]_vars

\* ------------------------------------------------- two phones, one request
\* the sessions of NumPhones phones are in the table together; requests are
\* served one at a time
InitPair == Start(1..NumPhones, {1})

NextPair ==
  \/ \E t \in Tasks, p \in Phones : RegisterCheck(t, p)
  \/ \E t \in Tasks : RegisterReset(t)
  \/ \E t \in Tasks : RegisterEvict(t)
  \/ \E t \in Tasks : RegisterCreateSender(t)
  \/ \E t \in Tasks : RegisterClient(t)
  \/ \E t \in Tasks : RegisterInsert(t)
  \/ \E t \in Tasks, k \in Tokens : GetLookup(t, k)
  \/ \E t \in Tasks : GetQRCode(t)
  \/ \E t \in Tasks : HandleGetQRCode(t)
  \/ \E t \in Tasks : Finish(t)
  \/ \E c \in PendingCalls : updateSessionStatus(c)
  \/ CleanupExpiredSessions
  \/ AdvanceClock
  \/ \E s \in SessionIds : BridgeConnect(s)
  \/ \E s \in SessionIds, payload \in QRPayloads : BridgeCode(s, payload)
  \/ \E s \in SessionIds : BridgeTimeout(s)
  \/ \E s \in SessionIds : BridgeSuccess(s)

SpecPair == InitPair /\ [][NextPair]_vars

\* ------------------------------------------------------ colliding tokens
\* as SpecPair, with tokens that may repeat
NextCollide ==
  \/ \E t \in Tasks, p \in Phones : RegisterCheck(t, p)
  \/ \E t \in Tasks : RegisterReset(t)
  \/ \E t \in Tasks : RegisterEvict(t)
  \/ \E t \in Tasks : RegisterCreateSender(t)
  \/ \E t \in Tasks : RegisterClient(t)
  \/ \E t \in Tasks : RegisterInsertRandom(t)
  \/ \E t \in Tasks, k \in Tokens : GetLookup(t, k)
  \/ \E t \in Tasks : GetQRCode(t)
  \/ \E t \in Tasks : HandleGetQRCode(t)
  \/ \E t \in Tasks : Finish(t)
  \/ \E s \in SessionIds : BridgeConnect(s)
  \/ \E s \in SessionIds, payload \in QRPayloads : BridgeCode(s, payload)

SpecCollide == InitPair /\ [][NextCollide]_vars

\* ------------------------------------------------------ secondary store
\* variant: the sync creates the missing rows and leaves the others alone
CreateOnlySync(sec, phone, row) ==
  [sec EXCEPT ![phone] = IF @ = NoRow THEN row ELSE @]

\* GormDB.SyncSenderToMSSQL: the row is created when the secondary store has
\* none for the phone, else its device_id, status, authenticated_at and
\* invalidated_at are updated
SyncSenderToMSSQL(sec, phone, row) ==
  [sec EXCEPT ![phone] =
     IF @ = NoRow THEN row
     ELSE [@ EXCEPT !.deviceId = row.deviceId,
                    !.status = row.status,
                    !.authenticatedAt = row.authenticatedAt,
                    !.invalidatedAt = row.invalidatedAt]]

\* GormDB.SyncAllSendersToMSSQL over the rows of the phones `rows`
SyncAllSendersToMSSQL(dir, sec, rows) ==
  [p \in DOMAIN sec |->
     IF p \in rows THEN SyncSenderToMSSQL(sec, p, dir[p])[p] ELSE sec[p]]

\* Database.GetAllSenders: the phones that have a row
GetAllSenders(dir) == {p \in DOMAIN dir : dir[p] # NoRow}

\* GormDB.ForceSyncAllSenders without error
ForceSyncAllSenders(dir, sec) ==
  SyncAllSendersToMSSQL(dir, sec, GetAllSenders(dir))

\* ClientManager.MonitorConnections, one iteration: the ticker fires,
\* checkConnections, then syncToMSSQL; the resync ends at the first row whose
\* sync fails (any rows may have been synced before it), which is logged
MonitorConnections ==
  /\ now < MaxSyncTicks * TickMinutes
  /\ now' = now + TickMinutes
  /\ senders' = CheckConnections(senders, now')
  /\ \E synced \in SUBSET GetAllSenders(senders') :
       mssql' = SyncAllSendersToMSSQL(senders', mssql, synced)
  /\ UNCHANGED <<restarts, sessions, heap, nextSid, mu, smu, bridge,
                 userClients, clients, tasks, sweep, event, messages>>

\* the rows a store may hold for a phone; an authenticated row has a device
\* identifier
StoredRows ==
  {NoRow} \cup
  {row \in
     {[status |-> st, deviceId |-> d,
       authenticatedAt |-> IF st = "authenticated" THEN 0 ELSE NoTime,
       invalidatedAt |-> IF st = "invalidated" THEN 0 ELSE NoTime] :
        st \in {"pending", "authenticated", "invalidated", "expired"},
        d \in {"", DeviceJID}} :
     row.status = "authenticated" => row.deviceId # ""}

\* the server is idle; the two stores hold any rows
InitSync ==
  /\ now = 0
  /\ restarts = 0
  /\ senders \in [1..NumPhones -> StoredRows]
  /\ mssql \in [1..NumPhones -> StoredRows]
  /\ sessions = [k \in Tokens |-> NoSid]
  /\ heap = [s \in SessionIds |-> NoSession]
  /\ nextSid = 1
  /\ mu = NoHolder
  /\ smu = [s \in SessionIds |-> FreeLock]
  /\ bridge = [s \in SessionIds |-> NoBridge]
  /\ userClients = [p \in 1..NumPhones |-> NoClient]
  /\ clients = [c \in ClientIds |-> [connected |-> FALSE]]
  /\ tasks = [t \in {1} |-> IdleTask]
  /\ sweep = IdleSweep
  /\ event = NoEvent
  /\ messages = <<>>

NextSync == MonitorConnections

SpecSync == InitSync /\ [][NextSync]_vars

\* ------------------------------------------------------ message handlers
\* the users of a chat: the phones of the directory and an outside party
Parties == 0..NumPhones
MessageIds == 1..MaxStored

\* the row of a sender that startup has authenticated
AuthenticatedRow == [status |-> "authenticated", deviceId |-> DeviceJID,
                     authenticatedAt |-> 0, invalidatedAt |-> NoTime]

\* LoadAllSenders, lines 71-82: the handler is added to the client that
\* startup loaded for the phone and found connected; no other client gets one
HasHandler(p) ==
  /\ userClients[p] = LoadedClient(p)
  /\ clients[userClients[p]].connected

\* variant: every event is stored as a received message
ReceivedMessage(evt, authenticatedSenderPhone) ==
  [senderPhone |-> evt.sender, recipientPhone |-> authenticatedSenderPhone,
   isFromMe |-> evt.isFromMe, chatID |-> evt.chat, messageID |-> evt.id]

\* HandleMessageEvent, lines 30-53: the models.Message of an event
Message(evt, authenticatedSenderPhone) ==
  [senderPhone |-> IF evt.isFromMe THEN authenticatedSenderPhone ELSE evt.sender,
   recipientPhone |-> IF evt.isFromMe THEN evt.chat ELSE authenticatedSenderPhone,
   isFromMe |-> evt.isFromMe, chatID |-> evt.chat, messageID |-> evt.id]

\* GormDB.StoreMessage: the insert fails when the store does, or when the
\* message_id is in the table already (uniqueIndex)
StoreMessage(table, message, storeOk) ==
  IF storeOk /\ \A i \in 1..Len(table) : table[i].messageID # message.messageID
  THEN Append(table, message)
  ELSE table

\* createMessageHandler: the client of phone p hands an events.Message to the
\* closure that carries p
DispatchEvent(p) ==
  /\ event = NoEvent
  /\ HasHandler(p)
  /\ Len(messages) < MaxStored
  /\ \E isFromMe \in BOOLEAN, chat \in Parties, sender \in Parties, id \in MessageIds :
       event' = [to |-> p, isFromMe |-> isFromMe, chat |-> chat,
                 sender |-> sender, id |-> id]
  /\ UNCHANGED <<now, restarts, senders, sessions, heap, nextSid, mu, smu, bridge,
                 userClients, clients, tasks, sweep, mssql, messages>>

\* HandleMessageEvent: build the message and store it; a failure is logged
\* by the closure
HandleMessageEvent ==
  /\ event # NoEvent
  /\ \E storeOk \in BOOLEAN :
       messages' = StoreMessage(messages, Message(event, event.to), storeOk)
  /\ event' = NoEvent
  /\ UNCHANGED <<now, restarts, senders, sessions, heap, nextSid, mu, smu, bridge,
                 userClients, clients, tasks, sweep, mssql>>

\* main after a start that found the senders `loaded` in the store with a
\* device identifier and connected their clients
InitMsg ==
  /\ now = 0
  /\ restarts = 0
  /\ \E loaded \in SUBSET (1..NumPhones) :
       /\ senders = [p \in 1..NumPhones |->
            IF p \in loaded THEN AuthenticatedRow ELSE NoRow]
       /\ mssql = [p \in 1..NumPhones |->
            IF p \in loaded THEN AuthenticatedRow ELSE NoRow]
       /\ userClients = [p \in 1..NumPhones |->
            IF p \in loaded THEN LoadedClient(p) ELSE NoClient]
       /\ clients = [c \in ClientIds |->
            IF \E p \in loaded : c = LoadedClient(p)
            THEN [connected |-> TRUE]
            ELSE NewClient]
  /\ sessions = [k \in Tokens |-> NoSid]
  /\ heap = [s \in SessionIds |-> NoSession]
  /\ nextSid = 1
  /\ mu = NoHolder
  /\ smu = [s \in SessionIds |-> FreeLock]
  /\ bridge = [s \in SessionIds |-> NoBridge]
  /\ tasks = [t \in {1} |-> IdleTask]
  /\ sweep = IdleSweep
  /\ event = NoEvent
  /\ messages = <<>>

NextMsg ==
  \/ \E p \in Phones : DispatchEvent(p)
  \/ HandleMessageEvent

SpecMsg == InitMsg /\ [][NextMsg]_vars

\* ================================================================ claims
\* the table entries of a phone
EntriesOf(p) == {k \in Tokens : sessions[k] # NoSid /\ heap[sessions[k]].phone = p}

\* the session objects created with a token
CreatedWith(tok) == {s \in SessionIds : heap[s].status # "none" /\ heap[s].token = tok}

\* the goroutines other than c that hold the lock of session s
OtherHolders(s, c) == (smu[s].r \cup {smu[s].w}) \ {c, NoHolder}

\* C1: at any time no two entries of the session table have the same phone
C1_OneSessionPerPhone == \A p \in Phones : Cardinality(EntriesOf(p)) <= 1

\* C1, the case: two registrations of one phone have both returned a session
C1_TwoRegistrationsDone ==
  \E t1, t2 \in Tasks :
    /\ t1 # t2
    /\ tasks[t1].pc = "done" /\ tasks[t1].code = 200 /\ tasks[t1].op = "register"
    /\ tasks[t2].pc = "done" /\ tasks[t2].code = 200 /\ tasks[t2].op = "register"
    /\ tasks[t1].phone = tasks[t2].phone

\* C2: a get of the token of a session whose expiresAt has passed is answered
\* with the Expired error and leaves the directory status of the session's
\* phone invalidated, whether or not the cleanup has run
C2_ExpiredGetIsExpired ==
  [][\A t \in Tasks :
       (tasks[t].pc = "idle" /\ tasks'[t].pc = "done" /\ tasks'[t].op = "get")
         => \A s \in CreatedWith(tasks'[t].tok) :
              After(now, heap[s].expiresAt)
                => /\ tasks'[t].err = "Expired"
                   /\ senders'[heap[s].phone].status = "invalidated"]_vars

\* C3: after a success event the bridge propagates authenticated to the
\* directory and ends: its updateSessionStatus goes on as soon as no other
\* goroutine holds the session lock
C3_SuccessPropagates ==
  \A s \in SessionIds :
    (bridge[s].pc = "update" /\ bridge[s].arg = "authenticated"
       /\ OtherHolders(s, BridgeId(s)) = {})
      => ENABLED updateSessionStatus(BridgeId(s))

C5_AuthenticatedRefused ==
  [][\A t \in Tasks :
       (tasks[t].pc = "idle" /\ tasks'[t].pc # "idle" /\ tasks'[t].op = "register"
          /\ senders[tasks'[t].phone].status = "authenticated")
         => /\ tasks'[t].pc = "done"
            /\ tasks'[t].code = 409
            /\ tasks'[t].err = "AlreadyAuthenticated"
            /\ UNCHANGED <<senders, sessions, heap, nextSid, userClients, clients,
                           bridge>>]_vars

\* C5, the case: the registration of an authenticated phone has been refused
C5_Refused ==
  \E t \in Tasks :
    /\ tasks[t].pc = "done" /\ tasks[t].op = "register" /\ tasks[t].code = 409
    /\ senders[tasks[t].phone].status = "authenticated"

\* C6: every step of a send through a sender without a client fails with
\* NotRegistered, and through a sender whose client is not connected with
\* NotConnected; nothing is sent and no message is stored
C6_SendRefused ==
  [][\A t \in Tasks :
       (tasks'[t].op = "send" /\ tasks'[t].pc # "idle" /\ tasks'[t] # tasks[t])
         => LET p == tasks'[t].phone IN
            /\ userClients[p] = NoClient
                 => /\ tasks'[t].pc = "done" /\ tasks'[t].err = "NotRegistered"
                    /\ ~tasks'[t].sent /\ ~tasks'[t].stored
            /\ (userClients[p] # NoClient /\ ~clients[userClients[p]].connected)
                 => /\ tasks'[t].pc = "done" /\ tasks'[t].err = "NotConnected"
                    /\ ~tasks'[t].sent /\ ~tasks'[t].stored]_vars

\* C6, the case: a send through a registered, disconnected sender was refused
C6_RefusedNotConnected ==
  \E t \in Tasks :
    /\ tasks[t].pc = "done" /\ tasks[t].op = "send" /\ tasks[t].err = "NotConnected"
    /\ userClients[tasks[t].phone] # NoClient
    /\ ~clients[userClients[tasks[t].phone]].connected

\* C7: a second supervisor tick, one tick interval after the first and with
\* no other change, leaves every row as the first tick left it
C7_TickIdempotent ==
  CheckConnections(CheckConnections(senders, now), now + TickMinutes)
    = CheckConnections(senders, now)

\* C8: a supervisor tick leaves the row of every phone whose status is
\* pending or invalidated unchanged
C8_TickOnlyAuthenticated ==
  [][checkConnections
       => \A p \in Phones :
            senders[p].status \in {"pending", "invalidated"}
              => senders'[p] = senders[p]]_vars

\* C9: a get that found its token in the table and the session past expiresAt
\* is answered with the Expired error: once no other goroutine holds the
\* session lock, it goes on to its answer
C9_ExpiredGetAnswers ==
  \A t \in Tasks :
    (tasks[t].pc = "get_expire" /\ OtherHolders(tasks[t].sid, TaskId(t)) = {})
      => ENABLED updateSessionStatus(TaskId(t))

\* C10: a get answered with a pending session carries a QR payload
C10_PendingHasPayload ==
  \A t \in Tasks :
    (tasks[t].pc = "done" /\ tasks[t].op = "get" /\ tasks[t].code = 200
       /\ tasks[t].status = "pending")
      => tasks[t].qr # ""

\* C11: the directory status of every phone that has a row is always one of
\* pending, authenticated, invalidated
C11_DirectoryStatuses ==
  \A p \in Phones :
    senders[p].status \in {"none", "pending", "authenticated", "invalidated"}

\* C12: a get that finds its session past expiresAt removes the session
\* from the table: while the entry is still in the table and no other
\* goroutine holds the session lock, the get can go on
C12_ExpiredGetRemoves ==
  \A t \in Tasks :
    (tasks[t].pc = "get_expire" /\ OtherHolders(tasks[t].sid, TaskId(t)) = {})
      => \/ sessions[tasks[t].tok] # tasks[t].sid
         \/ ENABLED updateSessionStatus(TaskId(t))

\* C13: the sweep and the get expire a session in the same way: whichever of
\* them has marked a session expired goes on to the status update and the
\* directory write as soon as no other goroutine holds the session lock
C13_SameExpiryPath ==
  \A c \in PendingCalls :
    (c[1] \in {"task", "sweep"} /\ OtherHolders(CallSid(c), c) = {})
      => ENABLED updateSessionStatus(c)

\* C14: a sweep removes the expired sessions and only those: every step of the
\* sweep leaves each session that is not past expiresAt in the table with its
\* fields and its phone's directory row unchanged, and when the sweep returns
\* no entry of the table is past expiresAt
C14_SweepRemovesExpiredOnly ==
  [][(CleanupExpiredSessions \/ updateSessionStatus(SweepId)) =>
       LET t == IF sweep.pc = "idle" THEN now ELSE sweep.now IN
         /\ \A k \in Tokens :
              (sessions[k] # NoSid /\ ~After(t, heap[sessions[k]].expiresAt))
                => /\ sessions'[k] = sessions[k]
                   /\ heap'[sessions[k]] = heap[sessions[k]]
                   /\ senders'[heap[sessions[k]].phone] =
                        senders[heap[sessions[k]].phone]
         /\ sweep'.pc = "idle" =>
              \A k \in Tokens :
                sessions'[k] # NoSid => ~After(t, heap'[sessions'[k]].expiresAt)
     ]_vars

\* C14: a sweep has removed an expired session and returned
C14_Swept ==
  /\ sweep.pc = "idle"
  /\ \E s \in SessionIds :
       /\ heap[s].status = "expired"
       /\ After(now, heap[s].expiresAt)
       /\ \A k \in Tokens : sessions[k] # s
       /\ senders[heap[s].phone].status = "expired"

\* C15: expired and authenticated are terminal: while a session exists, once
\* its status is authenticated or expired no step changes it
C15_TerminalStatuses ==
  [][\A s \in SessionIds :
       (heap[s].status \in {"authenticated", "expired"} /\ heap'[s] # NoSession)
         => heap'[s].status = heap[s].status]_vars

\* C16: on a timeout event the bridge marks the session expired, propagates
\* the status to the directory and terminates, releasing the session lock:
\* a bridge that has handled a timeout can go on to the directory write as
\* soon as no other goroutine holds the session lock
C16_TimeoutTerminates ==
  \A s \in SessionIds :
    (/\ bridge[s].pc = "update"
     /\ bridge[s].arg = "expired"
     /\ smu[s].w = BridgeId(s)
     /\ OtherHolders(s, BridgeId(s)) = {})
      => ENABLED updateSessionStatus(BridgeId(s))

\* C17: a connect error ends as a timeout is specified to end: when the bridge
\* that failed to connect returns, the session is expired and the directory
\* status of its phone is invalidated
C17_ConnectFailure ==
  [][\A s \in SessionIds :
       (/\ bridge[s].pc = "update"
        /\ bridge[s].arg = "expired"
        /\ smu[s].w # BridgeId(s)
        /\ updateSessionStatus(BridgeId(s)))
         => /\ bridge'[s].pc = "done"
            /\ heap'[s].status = "expired"
            /\ senders'[heap[s].phone].status = "invalidated"]_vars

\* C18: a code event replaces the session's qr payload by the event's and
\* leaves the status pending; the session's other fields, the other sessions,
\* the table and the directory are unchanged
C18_CodeEventFrame ==
  [][\A s \in SessionIds, payload \in QRPayloads :
       BridgeCode(s, payload)
         => /\ heap'[s].qr = payload
            /\ heap'[s].status = "pending"
            /\ heap'[s].expiresAt = heap[s].expiresAt
            /\ heap'[s].token = heap[s].token
            /\ heap'[s].phone = heap[s].phone
            /\ heap'[s].client = heap[s].client
            /\ \A o \in SessionIds \ {s} : heap'[o] = heap[o]
            /\ sessions' = sessions
            /\ senders' = senders
            /\ bridge'[s].pc = "loop"]_vars

\* C18: a session in the table whose bridge is still consuming events shows
\* the payload of a code event
C18_CodeShown ==
  \E s \in SessionIds :
    /\ bridge[s].pc = "loop"
    /\ sessions[heap[s].token] = s
    /\ heap[s].qr = "qr-b"
    /\ heap[s].status = "pending"

\* C19: no goroutine waits for ever on a lock: a goroutine that calls
\* updateSessionStatus, which takes the session lock for writing, does not
\* itself hold that lock, for writing or for reading
C19_NoSelfWait ==
  \A c \in PendingCalls :
    /\ smu[CallSid(c)].w # c
    /\ c \notin smu[CallSid(c)].r

\* C20: a get on session A is not blocked by the lock of another session B:
\* while the sweep waits for the lock of the session it is expiring, a get of
\* any other session of the table can do its lookup
C20_GetNotBlockedByOtherSession ==
  \A t \in Tasks, k \in Tokens :
    (/\ tasks[t].pc = "idle"
     /\ sessions[k] # NoSid
     /\ sweep.pc = "update"
     /\ sweep.sid # sessions[k]
     /\ OtherHolders(sweep.sid, SweepId) # {})
      => ENABLED GetLookup(t, k)

\* C21: no torn update: a step that writes the status or the qr payload of a
\* session finds the session lock free of every holder (the writer then has it
\* alone), and the handler's step that reads the two fields of the session a
\* get returned is made with the shared lock held
C21_NoTornUpdate ==
  [][/\ \A s \in SessionIds :
          (/\ heap[s] # NoSession
           /\ heap'[s] # NoSession
           /\ <<heap'[s].status, heap'[s].qr>> # <<heap[s].status, heap[s].qr>>)
            => smu[s] = FreeLock
     /\ \A t \in Tasks :
          HandleGetQRCode(t) => TaskId(t) \in smu[tasks[t].sid].r
    ]_vars

\* C22: no directory write is made by a goroutine that holds the table lock
\* or a session lock: a step of the running process that changes the
\* directory is not a step of the cleanup while it holds qm.mu, nor a step of
\* a bridge that holds the lock of its session
C22_NoWriteUnderLock ==
  [][(senders' # senders /\ restarts' = restarts)
       => /\ ~(mu = SweepId /\ sweep' # sweep)
          /\ \A s \in SessionIds :
               ~(smu'[s].w = BridgeId(s) /\ bridge'[s] # bridge[s])]_vars

\* the sessions that a re-registration of their phone has replaced: no longer
\* in the table, with a later session of the same phone in the table
Evicted ==
  {s \in SessionIds :
     /\ heap[s] # NoSession
     /\ sessions[heap[s].token] # s
     /\ \E k \in EntriesOf(heap[s].phone) : sessions[k] > s}

\* C23: the bridge of a session evicted by a re-registration writes nothing
\* more to the directory: no step of that bridge changes the row of the phone
C23_EvictedBridgeSilent ==
  [][\A s \in Evicted :
       (bridge'[s] # bridge[s] /\ restarts' = restarts)
         => senders'[heap[s].phone] = senders[heap[s].phone]]_vars

\* C24: the first of the session TTL and the pairing's terminal event decides:
\* when a get or the sweep has expired a session whose bridge is still
\* consuming events, a later success or timeout event changes neither the
\* session status nor the directory status of the phone
C24_FirstTerminalWins ==
  [][\A s \in SessionIds :
       (/\ heap[s].status = "expired"
        /\ bridge[s].pc = "loop"
        /\ (BridgeSuccess(s) \/ BridgeTimeout(s)))
         => /\ heap'[s].status = "expired"
            /\ senders'[heap[s].phone].status = senders[heap[s].phone].status]_vars

\* C25: the supervisor never promotes: a step that sets a directory status to
\* authenticated is the startup reload or the end of a bridge's success
\* handling for that phone, never a supervisor tick
C25_OnlyReloadOrSuccessPromotes ==
  [][\A p \in Phones :
       (senders'[p].status = "authenticated" /\ senders[p].status # "authenticated")
         => \/ restarts' = restarts + 1
            \/ \E s \in SessionIds :
                 /\ heap[s].phone = p
                 /\ bridge[s] = [pc |-> "update", arg |-> "authenticated"]
                 /\ bridge'[s].pc = "done"]_vars

\* C25: a tick has downgraded a sender that never had a device identifier
\* (the reload leaves such rows alone)
C25_TickDowngraded ==
  \E p \in Phones :
    /\ senders[p].status = "invalidated"
    /\ senders[p].deviceId = ""
    /\ senders[p].invalidatedAt # NoTime

\* C26: in every state a tick would turn each authenticated entry whose client
\* is not connected into invalidated and leave each authenticated entry whose
\* client is connected authenticated
C26_TickDowngradesDisconnected ==
  \A p \in Phones :
    senders[p].status = "authenticated"
      => CheckConnections(senders, now)[p].status =
           IF userClients[p] # NoClient /\ clients[userClients[p]].connected
           THEN "authenticated"
           ELSE "invalidated"

\* C26: an entry that the reload had authenticated has been invalidated by a
\* tick after its client lost the connection
C26_Downgraded ==
  \E p \in Phones :
    /\ senders[p].status = "invalidated"
    /\ senders[p].authenticatedAt # NoTime
    /\ senders[p].invalidatedAt # NoTime
    /\ userClients[p] # NoClient
    /\ ~clients[userClients[p]].connected

\* C27: a session in the table is never overwritten: no step replaces the
\* entry of a token by another session
C27_NoSilentOverwrite ==
  [][\A k \in Tokens :
       (sessions[k] # NoSid /\ sessions'[k] # NoSid) => sessions'[k] = sessions[k]]_vars

\* C28: nothing of a request reaches the bridge: a step in which a request
\* ends, or in which a get is cancelled, leaves every bridge where it is and
\* leaves the sessions, the table and the directory unchanged, and a bridge
\* that waits for an event with its session lock free can take every event
C28_BridgeIndependent ==
  [][/\ \A t \in Tasks :
          (/\ restarts' = restarts
           /\ \/ tasks[t].pc = "done" /\ tasks'[t].pc = "idle"
              \/ tasks[t].code # 408 /\ tasks'[t].code = 408)
            => /\ bridge' = bridge
               /\ heap' = heap
               /\ sessions' = sessions
               /\ senders' = senders
     /\ \A s \in SessionIds :
          (bridge'[s].pc = "loop" /\ smu'[s] = FreeLock)
            => (ENABLED BridgeTimeout(s))' /\ (ENABLED BridgeSuccess(s))'
    ]_vars

\* C28: a get of a session has been cancelled and the registration that
\* created the session has ended, and the bridge of the session is still
\* consuming events
C28_CancelledGetBridgeRuns ==
  \E t \in Tasks, s \in SessionIds :
    /\ tasks[t].pc = "done"
    /\ tasks[t].code = 408
    /\ sessions[tasks[t].tok] = s
    /\ bridge[s].pc = "loop"
    /\ heap[s].qr \in QRPayloads

\* C29: a failure of the secondary-store sync does not fail the operation: a
\* registration step whose primary directory write succeeded (the row is
\* created, or reset to pending) does not end the registration with an error,
\* and the row keeps the written status
C29_SyncFailureTolerated ==
  [][\A t \in Tasks :
       (/\ restarts' = restarts
        /\ tasks'[t] # tasks[t]
        /\ \/ tasks[t].pc = "reg_create" /\ senders[tasks[t].phone].status = "none"
           \/ tasks[t].pc = "reg_reset")
         => /\ senders'[tasks[t].phone].status = "pending"
            /\ tasks'[t].code # 500]_vars

\* C30: the startup reload attempts every entry that has a device identifier,
\* whatever its status: after it the entry is authenticated when its client
\* was loaded and is connected and invalidated otherwise; an entry without a
\* device identifier is left as it was
C30_ReloadByDeviceId ==
  [][restarts' = restarts + 1 =>
       \A p \in Phones :
         IF senders[p].deviceId = ""
         THEN senders'[p] = senders[p]
         ELSE /\ senders'[p].deviceId = senders[p].deviceId
              /\ senders'[p].status =
                   IF userClients'[p] # NoClient /\ clients'[userClients'[p]].connected
                   THEN "authenticated"
                   ELSE "invalidated"]_vars

\* C30: after a restart an entry is authenticated: the reload found its device
\* identifier while its status was not authenticated, loaded the client and
\* found it connected
C30_Reloaded ==
  \E p \in Phones :
    /\ restarts = 1
    /\ senders[p].status = "authenticated"
    /\ senders[p].authenticatedAt # NoTime
    /\ senders[p].deviceId # ""
    /\ userClients[p] # NoClient

C33_FailedCreateNoPartialState ==
  [][\A t \in Tasks :
       (/\ restarts' = restarts
        /\ tasks[t].op = "register"
        /\ tasks[t].pc # "done"
        /\ tasks'[t].pc = "done"
        /\ tasks'[t].code = 500)
         => /\ senders' = senders
            /\ sessions' = sessions]_vars

\* C34: only an authenticated sender passes the checks of /send: in the step
\* in which a send request passes them, the directory status of its sender is
\* authenticated
C34_SendOnlyAuthenticated ==
  [][\A t \in Tasks :
       (tasks[t].pc = "idle" /\ tasks'[t].pc = "send_msg")
         => senders[tasks'[t].phone].status = "authenticated"]_vars

\* The accesses to UserStoreManager.userClients that goroutines are about to
\* make: who, read or write, and the locks held during the access.
\* CreateUserStore (handlers.go line 838) is called by CreateQRCodeSession
\* with no lock held; HandleSendMessage looks the sender up with no lock;
\* SendMessage and checkConnections hold cm.mu.RLock.  UserStoreManager has
\* no mutex of its own.
MapAccess ==
  {[by |-> TaskId(t), kind |-> "write", locks |-> {}] :
     t \in {u \in Tasks : tasks[u].pc = "reg_client"}}
  \cup {[by |-> TaskId(t), kind |-> "read", locks |-> {}] :
     t \in {u \in Tasks : tasks[u].pc = "idle"}}
  \cup {[by |-> TaskId(t), kind |-> "read", locks |-> {<<"cm.mu", "R">>}] :
     t \in {u \in Tasks : tasks[u].pc = "send_msg"}}
  \cup {[by |-> <<"supervisor", 0>>, kind |-> "read", locks |-> {<<"cm.mu", "R">>}]}

\* two accesses exclude each other: a common lock, held for writing by one
Excluded(a, b) ==
  \E l \in a.locks, m \in b.locks : l[1] = m[1] /\ "W" \in {l[2], m[2]}

\* C35: the phone-to-client map is never accessed by two goroutines at once
\* with one of them writing: any two accesses of different goroutines that
\* can be made in a state, one of them a write, exclude each other by a lock
C35_NoMapRace ==
  \A a, b \in MapAccess :
    (a.by # b.by /\ "write" \in {a.kind, b.kind}) => Excluded(a, b)

\* C36: after a resync that completes without error every row of the primary
\* store has a row in the secondary store with the same phone, status and
\* device identifier, and a second resync changes nothing
C36_ResyncMirrors ==
  [][(now' = now + TickMinutes /\ mssql' = ForceSyncAllSenders(senders', mssql))
       => /\ \A p \in DOMAIN senders :
               senders'[p] # NoRow
                 => /\ mssql'[p] # NoRow
                    /\ mssql'[p].status = senders'[p].status
                    /\ mssql'[p].deviceId = senders'[p].deviceId
          /\ ForceSyncAllSenders(senders', mssql') = mssql']_vars

\* C36: a resync has run and the secondary store holds the status and the
\* device identifier of every row of the primary store, one of them paired
C36_Resynced ==
  /\ now > 0
  /\ \E p \in DOMAIN senders : senders[p].deviceId = DeviceJID
  /\ \A p \in DOMAIN senders :
       senders[p] # NoRow
         => /\ mssql[p].status = senders[p].status
            /\ mssql[p].deviceId = senders[p].deviceId

\* C37: a send that went out is reported as a success whether or not the
\* sent message could be recorded: the step in which the protocol-level send
\* succeeds ends the request with 200 and no error
C37_SendSuccessDespiteStore ==
  [][\A t \in Tasks :
       (tasks[t].pc = "send_msg" /\ tasks'[t].pc = "done" /\ tasks'[t].sent)
         => tasks'[t].code = 200 /\ tasks'[t].err = ""]_vars

\* C37: a send has succeeded and been answered with 200 while the recording
\* of the sent message failed
C37_SentNotStored ==
  \E t \in Tasks :
    /\ tasks[t].pc = "done"
    /\ tasks[t].op = "send"
    /\ tasks[t].sent
    /\ ~tasks[t].stored
    /\ tasks[t].code = 200

\* C38: the message stored for an event has, when the event is from-me, the
\* handler's authenticated phone as sender and the chat user as recipient,
\* and otherwise the event's sender as sender and the handler's phone as
\* recipient; its direction flag is the event's from-me flag
C38_StoredDirection ==
  [][(event # NoEvent /\ Len(messages') = Len(messages) + 1)
       => LET m == messages'[Len(messages')]
          IN /\ m.isFromMe = event.isFromMe
             /\ event.isFromMe =>
                  m.senderPhone = event.to /\ m.recipientPhone = event.chat
             /\ ~event.isFromMe =>
                  m.senderPhone = event.sender /\ m.recipientPhone = event.to]_vars

\* C38: the table holds a from-me message to another party and a received
\* message from another party
C38_BothDirectionsStored ==
  \E i, j \in 1..Len(messages) :
    /\ messages[i].isFromMe
    /\ messages[i].senderPhone # messages[i].recipientPhone
    /\ ~messages[j].isFromMe
    /\ messages[j].senderPhone # messages[j].recipientPhone

====
